---- MODULE Spec2Model ----
(***************************************************************************)
(* Model of internal/cli/cmd/cluster/operations.go: the OperationsOptions  *)
(* descriptor of the kbcli "cluster restart | upgrade | vscale | hscale |  *)
(* volume-expand | configure" commands, its completion steps and its       *)
(* Validate pipeline.                                                      *)
(*                                                                         *)
(* Go strings that are only compared or tested for emptiness are TLA+      *)
(* strings ("" is the empty string).  The entries of Parameters are split  *)
(* character by character, so they are sequences of one-character strings. *)
(* An error is the chain of its messages, outermost first; Nil is <<>>.    *)
(***************************************************************************)
EXTENDS Integers, Sequences, FiniteSets, TLC

VARIABLES
    o,          \* the OperationsOptions descriptor
    given,      \* the descriptor as built from the flags and arguments
    pre,        \* the descriptor as the completion step left it, on entry to Validate
    entry,      \* "command": run by create.BuildCommand; "direct": Validate called on its
                \* own; "params": validateUpdatedParams called on its own
    pc,         \* the next step of the run
    cerr,       \* the error returned by the completion step
    err,        \* the error returned by Validate
    ccalls,     \* the collaborator calls of the completion step, in order
    calls,      \* the collaborator calls of Validate, in order
    resp,       \* what the collaborators answered, for the calls that were made
    submitted   \* whether the Request Builder submitted the request

vars == <<o, given, pre, entry, pc, cerr, err, ccalls, calls, resp, submitted>>

----------------------------------------------------------------------------
(* Bounds of the model *)

MaxComponents == 2
MaxTemplates == 2
MaxReplicas == 5
MaxPieces == 3

(* Program constant: the default of the --replicas flag *)
DefaultReplicas == -1

----------------------------------------------------------------------------
(* Errors *)

Nil == <<>>
MakeError(msg) == <<msg>>
WrapError(e, msg) == <<msg>> \o e

ErrMissingClusterName == "missing cluster name"
ErrMissingClusterVersion == "missing cluster-version"
ErrMissingComponentNames == "missing component-names"
ErrMissingVCTNames == "missing volume-claim-template-names"
ErrMissingStorage == "missing storage"
ErrReplicas == "replicas required natural number"
ErrOnlyOneComponent == "reconfiguring only support one component."
ErrStat == "failed to check if %s exists"
ErrValidateParams == "failed to validate updated params."
ErrRequiredFileOrParams == "reconfiguring required configure file or updated parameters."
ErrFormatter == "updated parameter formatter: key=value"
ErrNoTemplate == "not support reconfiguring because there is no config template."
ErrMultiTemplates == "when multi templates exist, must specify which template to use."
ErrTemplateNotExist == "specify template name[%s] is not exist."
ErrNoConfigFile == "not support reconfiguring because there is no config file."
ErrFileNotExist == "specify file name[%s] is not exist."
ErrMultiComponents == "when multi component exist, must specify which component to use."
ErrNotConfirmed == "confirmation failed"
ErrRemote == "remote lookup failed"
ErrNotExist == "no such file or directory"
ErrAccessor == "accessor error"
ErrSchema == "schema validation failed"

----------------------------------------------------------------------------
(* Operation kinds *)

RestartType == "Restart"
UpgradeType == "Upgrade"
VerticalScalingType == "VerticalScaling"
HorizontalScalingType == "HorizontalScaling"
VolumeExpansionType == "VolumeExpansion"
ReconfiguringType == "Reconfiguring"

OpsTypes == {RestartType, UpgradeType, VerticalScalingType, HorizontalScalingType,
             VolumeExpansionType, ReconfiguringType}

----------------------------------------------------------------------------
(* Go's strings.Split and strings.SplitN on sequences of characters *)

RECURSIVE IndexFrom(_, _, _)
(* index of the first occurrence of sep in s at position i or later, 0 if none *)
IndexFrom(s, sep, i) ==
    IF i > Len(s) THEN 0
    ELSE IF s[i] = sep THEN i
    ELSE IndexFrom(s, sep, i + 1)

RECURSIVE Split(_, _)
(* strings.Split(s, sep): all the pieces between occurrences of sep; never empty *)
Split(s, sep) ==
    LET i == IndexFrom(s, sep, 1) IN
    IF i = 0 THEN <<s>>
    ELSE <<SubSeq(s, 1, i - 1)>> \o Split(SubSeq(s, i + 1, Len(s)), sep)

(* strings.SplitN(s, sep, 2): cut at the first sep only *)
SplitN2(s, sep) ==
    LET i == IndexFrom(s, sep, 1) IN
    IF i = 0 THEN <<s>>
    ELSE <<SubSeq(s, 1, i - 1), SubSeq(s, i + 1, Len(s))>>

(* a Go map[string]string as a function; m[k] = v *)
EmptyMap == [k \in {} |-> <<>>]
MapPut(m, k, v) == [x \in (DOMAIN m) \cup {k} |-> IF x = k THEN v ELSE m[x]]

----------------------------------------------------------------------------
(* Results of the descriptor's methods: the descriptor as the method left  *)
(* it, the error returned, and the collaborator calls made, in order.      *)

Result(d, e, c) == [o |-> d, err |-> e, calls |-> c]

Call(op, arg) == [op |-> op, arg |-> arg]

(* collaborator calls that go to the control plane *)
RemoteOps == {"GetCluster", "GetComponentsFromClusterCR", "GetConfigTemplateList",
              "GetConfigMap", "GetConfigConstraint"}

(* delete.Confirm(names, in): nil when the user confirms, an error otherwise *)
Confirm(d, names, answer) ==
    Result(d, IF answer THEN Nil ELSE MakeError(ErrNotConfirmed),
           <<Call("Confirm", names)>>)

(* mutant: the confirmation is asked before the version reference is checked *)
validateUpgrade_ConfirmFirst(d, env) ==
    IF d.ClusterVersionRef = ""
    THEN Result(d, MakeError(ErrMissingClusterVersion), Confirm(d, <<d.Name>>, env.confirm).calls)
    ELSE Confirm(d, <<d.Name>>, env.confirm)

validateUpgrade(d, env) ==
    IF d.ClusterVersionRef = ""
    THEN Result(d, MakeError(ErrMissingClusterVersion), <<>>)
    ELSE Confirm(d, <<d.Name>>, env.confirm)

validateVolumeExpansion(d) ==
    IF Len(d.VCTNames) = 0 THEN MakeError(ErrMissingVCTNames)
    ELSE IF d.Storage = "" THEN MakeError(ErrMissingStorage)
    ELSE Nil

validateHorizontalScaling(d) ==
    IF d.Replicas < -1 THEN MakeError(ErrReplicas) ELSE Nil

----------------------------------------------------------------------------
(* validateUpdatedParams *)

RECURSIVE ParsePairs(_, _)
(* the inner loop over the pieces pp of one entry, starting from mapping kv *)
ParsePairs(kv, pp) ==
    IF pp = <<>> THEN [kv |-> kv, err |-> Nil]
    ELSE LET fields == SplitN2(Head(pp), "=") IN
         IF Len(fields) # 2 THEN [kv |-> kv, err |-> MakeError(ErrFormatter)]
         ELSE ParsePairs(MapPut(kv, fields[1], fields[2]), Tail(pp))

RECURSIVE ParseParams(_, _)
(* the outer loop over the entries of Parameters *)
ParseParams(kv, params) ==
    IF params = <<>> THEN [kv |-> kv, err |-> Nil]
    ELSE LET r == ParsePairs(kv, Split(Head(params), ",")) IN
         IF r.err # Nil THEN r
         ELSE ParseParams(r.kv, Tail(params))

(* mutant: the mapping is not reset before the parameters are parsed *)
validateUpdatedParams_KeepOld(d) ==
    IF Len(d.Parameters) = 0 /\ d.URLPath = ""
    THEN Result(d, MakeError(ErrRequiredFileOrParams), <<>>)
    ELSE LET r == ParseParams(d.KeyValues, d.Parameters) IN
         Result([d EXCEPT !.KeyValues = r.kv], r.err, <<>>)

validateUpdatedParams(d) ==
    IF Len(d.Parameters) = 0 /\ d.URLPath = ""
    THEN Result(d, MakeError(ErrRequiredFileOrParams), <<>>)
    ELSE LET r == ParseParams(EmptyMap, d.Parameters) IN
         Result([d EXCEPT !.KeyValues = r.kv], r.err, <<>>)

----------------------------------------------------------------------------
(* validateTemplateParam: the template chosen from the fetched list *)

NoTemplate == [Name |-> "", VolumeName |-> "", ConfigConstraintRef |-> ""]

RECURSIVE FindTemplate(_, _, _)
(* index of the first template of tpls named name at position i or later, 0 if none *)
FindTemplate(tpls, name, i) ==
    IF i > Len(tpls) THEN 0
    ELSE IF tpls[i].Name = name THEN i
    ELSE FindTemplate(tpls, name, i + 1)

(* mutant: a sole template is taken whatever name was given *)
validateTemplateParam_SoleTemplate(d, tpls) ==
    IF Len(tpls) = 0
    THEN [o |-> d, tpl |-> NoTemplate, err |-> MakeError(ErrNoTemplate)]
    ELSE IF d.CfgTemplateName = "" /\ Len(tpls) > 1
    THEN [o |-> d, tpl |-> NoTemplate, err |-> MakeError(ErrMultiTemplates)]
    ELSE IF Len(tpls) = 1
    THEN [o |-> [d EXCEPT !.CfgTemplateName = tpls[1].Name], tpl |-> tpls[1], err |-> Nil]
    ELSE IF FindTemplate(tpls, d.CfgTemplateName, 1) # 0
    THEN [o |-> d, tpl |-> tpls[FindTemplate(tpls, d.CfgTemplateName, 1)], err |-> Nil]
    ELSE [o |-> d, tpl |-> NoTemplate, err |-> MakeError(ErrTemplateNotExist)]

validateTemplateParam(d, tpls) ==
    IF Len(tpls) = 0
    THEN [o |-> d, tpl |-> NoTemplate, err |-> MakeError(ErrNoTemplate)]
    ELSE IF d.CfgTemplateName = "" /\ Len(tpls) > 1
    THEN [o |-> d, tpl |-> NoTemplate, err |-> MakeError(ErrMultiTemplates)]
    ELSE IF d.CfgTemplateName = "" /\ Len(tpls) = 1
    THEN [o |-> [d EXCEPT !.CfgTemplateName = tpls[1].Name], tpl |-> tpls[1], err |-> Nil]
    ELSE LET i == FindTemplate(tpls, d.CfgTemplateName, 1) IN
         IF i # 0 THEN [o |-> d, tpl |-> tpls[i], err |-> Nil]
         ELSE [o |-> d, tpl |-> NoTemplate, err |-> MakeError(ErrTemplateNotExist)]

----------------------------------------------------------------------------
(* validateConfigMapKey: the file key chosen from the template's config map. *)
(* cmObj.Data is modelled by its key set env.cm.keys.                          *)

GetComponentCfgName(clusterName, componentName, volumeName) ==
    <<clusterName, componentName, volumeName>>

(* mutant: with no file name given, a key is filled in however many keys there are *)
validateConfigMapKey_FillAny(d, tpl, componentName, env) ==
    LET get == <<Call("GetConfigMap", GetComponentCfgName(d.Name, componentName, tpl.VolumeName))>>
        data == env.cm.keys
    IN  IF env.cm.err THEN Result(d, MakeError(ErrRemote), get)
        ELSE IF Cardinality(data) = 0 THEN Result(d, MakeError(ErrNoConfigFile), get)
        ELSE IF d.CfgFile = ""
        THEN Result([d EXCEPT !.CfgFile = CHOOSE k \in data : TRUE], Nil, get)
        ELSE IF d.CfgFile \notin data THEN Result(d, MakeError(ErrFileNotExist), get)
        ELSE Result(d, Nil, get)

validateConfigMapKey(d, tpl, componentName, env) ==
    LET get == <<Call("GetConfigMap", GetComponentCfgName(d.Name, componentName, tpl.VolumeName))>>
        data == env.cm.keys
    IN  IF env.cm.err THEN Result(d, MakeError(ErrRemote), get)
        ELSE IF Cardinality(data) = 0 THEN Result(d, MakeError(ErrNoConfigFile), get)
        ELSE IF d.CfgFile = "" /\ Cardinality(data) = 1
        THEN Result([d EXCEPT !.CfgFile = CHOOSE k \in data : TRUE], Nil, get)
        ELSE IF d.CfgFile \notin data THEN Result(d, MakeError(ErrFileNotExist), get)
        ELSE Result(d, Nil, get)

(* validateConfigParams: the constraint fetch and the schema check *)
validateConfigParams(d, tpl, componentName, env) ==
    LET get == <<Call("GetConfigConstraint", <<tpl.ConfigConstraintRef>>)>>
        merge == <<Call("MergeAndValidateConfiguration", <<d.CfgFile>>)>>
    IN  IF env.cc.err THEN Result(d, MakeError(ErrRemote), get)
        ELSE Result(d, IF env.cc.ok THEN Nil ELSE MakeError(ErrSchema), get \o merge)

----------------------------------------------------------------------------
(* validateReconfiguring, one operator per stage: each stage takes what the *)
(* stages before it returned and runs the rest of the function.             *)

(* mutant: a failed file-key step does not stop the constraint fetch *)
reconfigureParams_NoShortCircuit(k, tpl, componentName, list, env) ==
    Result(k.o,
           IF k.err # Nil THEN k.err ELSE validateConfigParams(k.o, tpl, componentName, env).err,
           list \o k.calls \o validateConfigParams(k.o, tpl, componentName, env).calls)

(* lines 176-179: the schema check ends the function *)
reconfigureParams(k, tpl, componentName, list, env) ==
    IF k.err # Nil THEN Result(k.o, k.err, list \o k.calls)
    ELSE Result(k.o, validateConfigParams(k.o, tpl, componentName, env).err,
                list \o k.calls \o validateConfigParams(k.o, tpl, componentName, env).calls)

(* lines 169-175: t is what validateTemplateParam returned *)
reconfigureMapKey(t, componentName, list, env) ==
    IF t.err # Nil THEN Result(t.o, t.err, list)
    ELSE reconfigureParams(validateConfigMapKey(t.o, t.tpl, componentName, env),
                           t.tpl, componentName, list, env)

(* lines 160-168: p is what validateUpdatedParams returned *)
reconfigureTemplate(p, env) ==
    IF p.err # Nil THEN Result(p.o, WrapError(p.err, ErrValidateParams), <<>>)
    ELSE IF env.tpl.err
    THEN Result(p.o, MakeError(ErrRemote),
                <<Call("GetConfigTemplateList", <<p.o.Name, p.o.ComponentNames[1]>>)>>)
    ELSE reconfigureMapKey(validateTemplateParam(p.o, env.tpl.list), p.o.ComponentNames[1],
                           <<Call("GetConfigTemplateList", <<p.o.Name, p.o.ComponentNames[1]>>)>>,
                           env)

(* mutant: an existing file does not end the function; it goes on to the parameters *)
validateReconfiguring_NoEarlyReturn(d, env) ==
    IF Len(d.ComponentNames) # 1
    THEN Result(d, MakeError(ErrOnlyOneComponent), <<>>)
    ELSE IF d.URLPath # "" /\ ~env.fileExists
    THEN Result(d, WrapError(MakeError(ErrNotExist), ErrStat), <<Call("Stat", <<d.URLPath>>)>>)
    ELSE reconfigureTemplate(validateUpdatedParams(d), env)

validateReconfiguring(d, env) ==
    IF Len(d.ComponentNames) # 1
    THEN Result(d, MakeError(ErrOnlyOneComponent), <<>>)
    ELSE IF d.URLPath # ""
    THEN Result(d, IF env.fileExists THEN Nil ELSE WrapError(MakeError(ErrNotExist), ErrStat),
                <<Call("Stat", <<d.URLPath>>)>>)
    ELSE reconfigureTemplate(validateUpdatedParams(d), env)

----------------------------------------------------------------------------
(* Validate *)

(* lines 297-310: the switch on the operation kind *)
KindCheck(d, env) ==
    CASE d.OpsType = VolumeExpansionType -> Result(d, validateVolumeExpansion(d), <<>>)
      [] d.OpsType = HorizontalScalingType -> Result(d, validateHorizontalScaling(d), <<>>)
      [] d.OpsType = ReconfiguringType -> validateReconfiguring(d, env)
      [] OTHER -> Result(d, Nil, <<>>)

(* line 311: the confirmation, reached when the kind's check k returned nil *)
ConfirmChecked(k, env) ==
    IF k.err # Nil THEN k
    ELSE Result(k.o, Confirm(k.o, <<k.o.Name>>, env.confirm).err,
                k.calls \o Confirm(k.o, <<k.o.Name>>, env.confirm).calls)

(* mutant: the operation kind is dispatched before the cluster name is checked *)
Validate_UpgradeFirst(d, env) ==
    IF d.OpsType = UpgradeType THEN validateUpgrade(d, env)
    ELSE IF d.Name = "" THEN Result(d, MakeError(ErrMissingClusterName), <<>>)
    ELSE IF Len(d.ComponentNames) = 0
    THEN Result(d, MakeError(ErrMissingComponentNames), <<>>)
    ELSE ConfirmChecked(KindCheck(d, env), env)

(* mutant: the kind's own check runs before the component names are checked *)
Validate_KindFirst(d, env) ==
    IF d.Name = "" THEN Result(d, MakeError(ErrMissingClusterName), <<>>)
    ELSE IF d.OpsType = UpgradeType THEN validateUpgrade(d, env)
    ELSE IF KindCheck(d, env).err # Nil THEN KindCheck(d, env)
    ELSE IF Len(d.ComponentNames) = 0
    THEN Result(d, MakeError(ErrMissingComponentNames), KindCheck(d, env).calls)
    ELSE ConfirmChecked(KindCheck(d, env), env)

Validate(d, env) ==
    IF d.Name = "" THEN Result(d, MakeError(ErrMissingClusterName), <<>>)
    ELSE IF d.OpsType = UpgradeType THEN validateUpgrade(d, env)
    ELSE IF Len(d.ComponentNames) = 0
    THEN Result(d, MakeError(ErrMissingComponentNames), <<>>)
    ELSE ConfirmChecked(KindCheck(d, env), env)

----------------------------------------------------------------------------
(* Completion steps *)

(* unstructured.NestedStringSlice(obj, "status", "operations", "restartable") *)
(* on a record whose field is absent, is no list of strings, or is a list.    *)
NestedStringSlice(field) ==
    CASE field.kind = "absent" -> [val |-> <<>>, found |-> FALSE, err |-> Nil]
      [] field.kind = "malformed" -> [val |-> <<>>, found |-> FALSE, err |-> MakeError(ErrAccessor)]
      [] OTHER -> [val |-> field.names, found |-> TRUE, err |-> Nil]

(* mutant: a failed fetch of the cluster record is not returned *)
CompleteRestartOps_IgnoreGetErr(d, cluster) ==
    IF Len(d.ComponentNames) # 0 THEN Result(d, Nil, <<>>)
    ELSE IF cluster.err THEN Result(d, Nil, <<Call("GetCluster", <<d.Name>>)>>)
    ELSE Result([d EXCEPT !.ComponentNames = NestedStringSlice(cluster.restartable).val],
                NestedStringSlice(cluster.restartable).err,
                <<Call("GetCluster", <<d.Name>>)>>)

CompleteRestartOps(d, cluster) ==
    IF Len(d.ComponentNames) # 0 THEN Result(d, Nil, <<>>)
    ELSE LET get == <<Call("GetCluster", <<d.Name>>)>> IN
         IF cluster.err THEN Result(d, MakeError(ErrRemote), get)
         ELSE LET r == NestedStringSlice(cluster.restartable) IN
              Result([d EXCEPT !.ComponentNames = r.val], r.err, get)

(* mutant: only an empty component list is refused *)
fillComponentNameForReconfiguring_AnyCount(d, components) ==
    IF Len(d.ComponentNames) # 0 THEN Result(d, Nil, <<>>)
    ELSE LET get == <<Call("GetComponentsFromClusterCR", <<d.Name>>)>> IN
         IF components.err THEN Result(d, MakeError(ErrRemote), get)
         ELSE IF Len(components.names) = 0 THEN Result(d, MakeError(ErrMultiComponents), get)
         ELSE Result([d EXCEPT !.ComponentNames = components.names], Nil, get)

fillComponentNameForReconfiguring(d, components) ==
    IF Len(d.ComponentNames) # 0 THEN Result(d, Nil, <<>>)
    ELSE LET get == <<Call("GetComponentsFromClusterCR", <<d.Name>>)>> IN
         IF components.err THEN Result(d, MakeError(ErrRemote), get)
         ELSE IF Len(components.names) # 1 THEN Result(d, MakeError(ErrMultiComponents), get)
         ELSE Result([d EXCEPT !.ComponentNames = components.names], Nil, get)

----------------------------------------------------------------------------
(* Inputs: flag and argument values, and collaborator answers *)

ClusterNames == {"", "mycluster"}

AllComponents == <<"mysql", "proxy", "etcd", "kafka">>
CompLists == {SubSeq(AllComponents, 1, n) : n \in 0..MaxComponents}

Tpl1 == [Name |-> "tpl1", VolumeName |-> "vol1", ConfigConstraintRef |-> "cc1"]
Tpl2 == [Name |-> "tpl2", VolumeName |-> "vol2", ConfigConstraintRef |-> "cc2"]
TemplateLists == UNION {[1..n -> {Tpl1, Tpl2}] : n \in 0..MaxTemplates}
TemplateNames == {"", "tpl1", "tpl2"}

FileKeys == {"my.cnf", "other.cnf"}
FileNames == {""} \cup FileKeys

(* pieces of --set entries, as characters *)
PieceA1 == <<"a", "=", "1">>
PieceA2 == <<"a", "=", "2">>
PieceB1 == <<"b", "=", "1">>
PieceNoEq == <<"a", "b">>
PieceTwoEq == <<"a", "=", "b", "=", "1">>
PieceEmpty == <<>>
Pieces == {PieceA1, PieceA2, PieceB1, PieceNoEq, PieceTwoEq, PieceEmpty}

ParamSamples == {<<>>, <<PieceA1>>, <<PieceNoEq>>, <<PieceA1 \o <<",">> \o PieceB1, PieceA2>>}

(* a mapping left by an earlier Validate call on the same descriptor *)
StaleMap == MapPut(EmptyMap, <<"z">>, <<"9">>)

(* newBaseOperationsOptions: every field at its zero value, KeyValues an empty map *)
newBaseOperationsOptions(opsType) ==
    [Name |-> "", OpsType |-> opsType, ComponentNames |-> <<>>, ClusterVersionRef |-> "",
     Replicas |-> 0, URLPath |-> "", Parameters |-> <<>>, KeyValues |-> EmptyMap,
     CfgTemplateName |-> "", CfgFile |-> "", VCTNames |-> <<>>, Storage |-> ""]

(* The descriptors a command builds from its flags (New...Cmd), and, for a *)
(* direct caller of Validate, also the exported fields no flag sets.       *)
Descriptors(opsType, direct) ==
    LET b == newBaseOperationsOptions(opsType) IN
    CASE opsType = UpgradeType ->
           {[b EXCEPT !.Name = n, !.ClusterVersionRef = v, !.ComponentNames = c] :
                n \in ClusterNames, v \in {"", "v2"},
                c \in IF direct THEN CompLists ELSE {<<>>}}
      [] opsType = HorizontalScalingType ->
           {[b EXCEPT !.Name = n, !.ComponentNames = c, !.Replicas = r] :
                n \in ClusterNames, c \in CompLists,
                r \in {DefaultReplicas} \cup ((0 - MaxReplicas)..MaxReplicas)}
      [] opsType = VolumeExpansionType ->
           {[b EXCEPT !.Name = n, !.ComponentNames = c, !.VCTNames = v, !.Storage = g] :
                n \in ClusterNames, c \in CompLists, v \in {<<>>, <<"data">>},
                g \in {"", "10Gi"}}
      [] opsType = ReconfiguringType ->
           {[b EXCEPT !.Name = n, !.ComponentNames = c, !.Parameters = p,
                      !.CfgTemplateName = t, !.CfgFile = f, !.URLPath = u, !.KeyValues = kv] :
                n \in ClusterNames, c \in CompLists, p \in ParamSamples,
                t \in TemplateNames, f \in FileNames,
                u \in IF direct THEN {"", "/tmp/my.cnf"} ELSE {""},
                kv \in IF direct THEN {EmptyMap, StaleMap} ELSE {EmptyMap}}
      [] OTHER ->
           {[b EXCEPT !.Name = n, !.ComponentNames = c] : n \in ClusterNames, c \in CompLists}

AbsentField == [kind |-> "absent", names |-> <<>>]
MalformedField == [kind |-> "malformed", names |-> <<>>]
ListField(l) == [kind |-> "list", names |-> l]

ClusterResponses ==
    {[err |-> TRUE, restartable |-> AbsentField]} \cup
    {[err |-> FALSE, restartable |-> r] :
         r \in {AbsentField, MalformedField} \cup {ListField(l) : l \in CompLists}}

ComponentsResponses ==
    {[err |-> TRUE, names |-> <<>>]} \cup {[err |-> FALSE, names |-> l] : l \in CompLists}

TplResponses ==
    {[err |-> TRUE, list |-> <<>>]} \cup {[err |-> FALSE, list |-> l] : l \in TemplateLists}

CMResponses ==
    {[err |-> TRUE, keys |-> {}]} \cup {[err |-> FALSE, keys |-> k] : k \in SUBSET FileKeys}

CCResponses ==
    {[err |-> TRUE, ok |-> FALSE], [err |-> FALSE, ok |-> FALSE], [err |-> FALSE, ok |-> TRUE]}

ValidateEnvs ==
    [fileExists : BOOLEAN, tpl : TplResponses, cm : CMResponses, cc : CCResponses,
     confirm : BOOLEAN]

NoResp ==
    [cluster |-> [err |-> FALSE, restartable |-> AbsentField],
     components |-> [err |-> FALSE, names |-> <<>>],
     fileExists |-> FALSE,
     tpl |-> [err |-> FALSE, list |-> <<>>],
     cm |-> [err |-> FALSE, keys |-> {}],
     cc |-> [err |-> FALSE, ok |-> FALSE],
     confirm |-> FALSE]

Made(c, op) == \E i \in 1..Len(c) : c[i].op = op

(* the answers of env to the calls c that were made, merged into r *)
Seen(r, env, c) ==
    [r EXCEPT !.fileExists = IF Made(c, "Stat") THEN env.fileExists ELSE @,
              !.tpl = IF Made(c, "GetConfigTemplateList") THEN env.tpl ELSE @,
              !.cm = IF Made(c, "GetConfigMap") THEN env.cm ELSE @,
              !.cc = IF Made(c, "MergeAndValidateConfiguration") THEN env.cc
                     ELSE IF Made(c, "GetConfigConstraint") THEN [err |-> env.cc.err, ok |-> FALSE]
                     ELSE @,
              !.confirm = IF Made(c, "Confirm") THEN env.confirm ELSE @]

----------------------------------------------------------------------------
(* The run of one command (create.BuildCommand: Complete, Validate, Run),  *)
(* or of one direct call of Validate.                                      *)

Init ==
    /\ entry \in {"command", "direct"}
    /\ o \in UNION {Descriptors(t, entry = "direct") : t \in OpsTypes}
    /\ given = o
    /\ pre = o
    /\ pc = IF entry = "command" THEN "complete" ELSE "validate"
    /\ cerr = Nil
    /\ err = Nil
    /\ ccalls = <<>>
    /\ calls = <<>>
    /\ resp = NoResp
    /\ submitted = FALSE

(* create.BuildCommand runs Complete, Validate and Run in this order and *)
(* stops at the first error (util.CheckErr).                             *)
AfterComplete(e) == IF e = Nil THEN "validate" ELSE "done"
AfterValidate(how, e) == IF how = "command" /\ e = Nil THEN "run" ELSE "done"

(* the completion step returned r; cluster and components are the answers it got *)
Completed(r, cluster, components) ==
    /\ o' = r.o
    /\ pre' = r.o
    /\ cerr' = r.err
    /\ ccalls' = r.calls
    /\ resp' = IF r.calls = <<>> THEN resp
               ELSE [resp EXCEPT !.cluster = cluster, !.components = components]
    /\ pc' = AfterComplete(r.err)
    /\ UNCHANGED <<given, entry, err, calls, submitted>>

(* inputs.Complete of NewRestartCmd *)
RunCompleteRestartOps ==
    /\ pc = "complete"
    /\ o.OpsType = RestartType
    /\ \E cluster \in ClusterResponses :
         Completed(CompleteRestartOps(o, cluster), cluster, resp.components)

(* inputs.Complete of NewReconfigureCmd *)
RunFillComponentName ==
    /\ pc = "complete"
    /\ o.OpsType = ReconfiguringType
    /\ \E components \in ComponentsResponses :
         Completed(fillComponentNameForReconfiguring(o, components), resp.cluster, components)

(* the other commands set no inputs.Complete *)
RunCompleteNone ==
    /\ pc = "complete"
    /\ o.OpsType \notin {RestartType, ReconfiguringType}
    /\ pc' = "validate"
    /\ UNCHANGED <<o, given, pre, entry, cerr, err, ccalls, calls, resp, submitted>>

(* Validate returned r under the collaborator answers env *)
Validated(r, env) ==
    /\ o' = r.o
    /\ err' = r.err
    /\ calls' = r.calls
    /\ resp' = Seen(resp, env, r.calls)
    /\ pc' = AfterValidate(entry, r.err)
    /\ pre' = o
    /\ UNCHANGED <<given, entry, cerr, ccalls, submitted>>

(* inputs.Validate: OperationsOptions.Validate *)
RunValidate ==
    /\ pc = "validate"
    /\ \E env \in ValidateEnvs : Validated(Validate(o, env), env)

(* BaseOptions.Run: the Request Builder renders and submits the request *)
RunSubmit ==
    /\ pc = "run"
    /\ \E ok \in BOOLEAN : submitted' = ok
    /\ pc' = "done"
    /\ UNCHANGED <<o, given, pre, entry, cerr, err, ccalls, calls, resp>>

Next ==
    \/ RunCompleteRestartOps
    \/ RunFillComponentName
    \/ RunCompleteNone
    \/ RunValidate
    \/ RunSubmit

Spec == Init /\ [][Next]_vars

----------------------------------------------------------------------------
(* validateUpdatedParams on its own, over every parameter list of at most  *)
(* MaxPieces pieces, each piece starting a new entry or following a comma  *)
(* in the last entry.                                                      *)

RECURSIVE ParamListsOf(_)
ParamListsOf(n) ==
    IF n = 0 THEN {<<>>}
    ELSE IF n = 1 THEN {<<p>> : p \in Pieces}
    ELSE {l \o <<p>> : l \in ParamListsOf(n - 1), p \in Pieces} \cup
         {[l EXCEPT ![Len(l)] = @ \o <<",">> \o p] : l \in ParamListsOf(n - 1), p \in Pieces}

ParamLists == UNION {ParamListsOf(n) : n \in 0..MaxPieces}

InitParams ==
    /\ entry = "params"
    /\ o \in {[newBaseOperationsOptions(ReconfiguringType) EXCEPT
                  !.Name = "mycluster", !.ComponentNames = <<"mysql">>,
                  !.Parameters = p, !.URLPath = u, !.KeyValues = kv] :
              p \in ParamLists, u \in {"", "/tmp/my.cnf"}, kv \in {EmptyMap, StaleMap}}
    /\ given = o
    /\ pre = o
    /\ pc = "params"
    /\ cerr = Nil
    /\ err = Nil
    /\ ccalls = <<>>
    /\ calls = <<>>
    /\ resp = NoResp
    /\ submitted = FALSE

(* validateUpdatedParams returned r *)
ParamsValidated(r) ==
    /\ o' = r.o
    /\ err' = r.err
    /\ pc' = "done"
    /\ UNCHANGED <<given, pre, entry, cerr, ccalls, calls, resp, submitted>>

RunValidateUpdatedParams ==
    /\ pc = "params"
    /\ ParamsValidated(validateUpdatedParams(o))

NextParams == RunValidateUpdatedParams

SpecParams == InitParams /\ [][NextParams]_vars

----------------------------------------------------------------------------
(* Observations on a run *)

(* Validate has returned *)
ValidateRan == pc \in {"run", "done"} /\ cerr = Nil

(* the completion step of a command has returned *)
CompleteRan == entry = "command" /\ pc # "complete"

Ops(c) == [i \in 1..Len(c) |-> c[i].op]
NoRemoteCall(c) == \A i \in 1..Len(c) : c[i].op \notin RemoteOps
ConfirmCount == Cardinality({i \in 1..Len(calls) : calls[i].op = "Confirm"})

----------------------------------------------------------------------------
(* C1: whatever the operation kind and the other fields, Validate called   *)
(* with an empty cluster name returns "missing cluster name" before any    *)
(* other check: it makes no lookup, asks no confirmation and changes no     *)
(* field of the descriptor.                                                *)
C1_EmptyNameFailsFirst ==
    (ValidateRan /\ pre.Name = "") =>
        /\ err = MakeError(ErrMissingClusterName)
        /\ calls = <<>>
        /\ o = pre

(* an Upgrade with a version reference, which would otherwise be confirmed *)
C1_Witness ==
    /\ ValidateRan
    /\ pre.Name = ""
    /\ pre.OpsType = UpgradeType
    /\ pre.ClusterVersionRef # ""
    /\ err = MakeError(ErrMissingClusterName)

ChecksPassed ==
    /\ pre.Name # ""
    /\ CASE pre.OpsType = UpgradeType -> pre.ClusterVersionRef # ""
         [] pre.OpsType = VolumeExpansionType ->
              Len(pre.ComponentNames) # 0 /\ Len(pre.VCTNames) # 0 /\ pre.Storage # ""
         [] pre.OpsType = HorizontalScalingType ->
              Len(pre.ComponentNames) # 0 /\ pre.Replicas >= -1
         [] pre.OpsType = ReconfiguringType ->
              /\ Len(pre.ComponentNames) = 1
              /\ \/ pre.URLPath # "" /\ resp.fileExists /\ Ops(calls) = <<"Stat", "Confirm">>
                 \/ /\ pre.URLPath = ""
                    /\ Ops(calls) = <<"GetConfigTemplateList", "GetConfigMap",
                                      "GetConfigConstraint", "MergeAndValidateConfiguration",
                                      "Confirm">>
                    /\ ~resp.tpl.err /\ ~resp.cm.err /\ ~resp.cc.err /\ resp.cc.ok
         [] OTHER -> Len(pre.ComponentNames) # 0

(* C2: Validate asks the confirmation at most once, as its last call, with   *)
(* exactly the cluster name, and only when every check of the kind passed; *)
(* when a check fails (Upgrade without a version reference included) it is *)
(* never asked; Validate returns nil only if it was asked and answered yes. *)
C2_ConfirmOnlyAfterChecks ==
    ValidateRan =>
        /\ ConfirmCount <= 1
        /\ \A i \in 1..Len(calls) :
             calls[i].op = "Confirm" =>
                /\ i = Len(calls)
                /\ calls[i].arg = <<pre.Name>>
                /\ ChecksPassed
                /\ err \in {Nil, MakeError(ErrNotConfirmed)}
        /\ (err = Nil) => (ConfirmCount = 1 /\ resp.confirm)
        /\ (err # Nil /\ err # MakeError(ErrNotConfirmed)) => ConfirmCount = 0
        /\ (pre.OpsType = UpgradeType /\ pre.Name # "" /\ pre.ClusterVersionRef = "") =>
              (err = MakeError(ErrMissingClusterVersion) /\ ConfirmCount = 0)
        /\ (pc = "run" \/ submitted) => (err = Nil /\ resp.confirm)

(* a reconfiguration that passed every lookup and was then refused *)
C2_Witness ==
    /\ ValidateRan
    /\ pre.OpsType = ReconfiguringType
    /\ pre.URLPath = ""
    /\ ConfirmCount = 1
    /\ ~resp.confirm
    /\ err = MakeError(ErrNotConfirmed)

(* C3: for HorizontalScale with a cluster name and component names, every  *)
(* replica count of -1 or lower is rejected without confirmation (the flag *)
(* default -1 included), and every count of 0 or more goes on to the       *)
(* confirmation.                                                           *)
C3_ReplicasBelowZeroRejected ==
    (/\ ValidateRan
     /\ pre.OpsType = HorizontalScalingType
     /\ pre.Name # ""
     /\ Len(pre.ComponentNames) # 0) =>
        /\ (pre.Replicas <= -1) => (err = MakeError(ErrReplicas) /\ ConfirmCount = 0)
        /\ (pre.Replicas >= 0) => ConfirmCount = 1
        /\ (pre.Replicas = DefaultReplicas) => ConfirmCount = 0

(* C4: for VerticalScale, HorizontalScale, VolumeExpand and Reconfigure,   *)
(* Validate with a cluster name and no component name returns "missing     *)
(* component-names" before the kind's own checks, whatever the other       *)
(* fields are, with no lookup and no confirmation.                         *)
C4_MissingComponentNames ==
    (/\ ValidateRan
     /\ pre.OpsType \in {VerticalScalingType, HorizontalScalingType,
                         VolumeExpansionType, ReconfiguringType}
     /\ pre.Name # ""
     /\ Len(pre.ComponentNames) = 0) =>
        /\ err = MakeError(ErrMissingComponentNames)
        /\ calls = <<>>
        /\ o = pre

(* a VolumeExpand whose own check would fail as well *)
C4_Witness ==
    /\ ValidateRan
    /\ pre.OpsType = VolumeExpansionType
    /\ pre.Name # ""
    /\ Len(pre.ComponentNames) = 0
    /\ Len(pre.VCTNames) = 0
    /\ err = MakeError(ErrMissingComponentNames)

(* C5: for Reconfigure with exactly one component name and a file path,   *)
(* Validate makes no remote lookup, does not parse the parameter list and  *)
(* leaves the mapping, the template name and the file name as they were,   *)
(* whatever the parameter list holds; it goes on to the confirmation if    *)
(* and only if the file exists, and fails otherwise.                       *)
C5_FilePathSkipsResolution ==
    (/\ ValidateRan
     /\ pre.OpsType = ReconfiguringType
     /\ pre.Name # ""
     /\ Len(pre.ComponentNames) = 1
     /\ pre.URLPath # "") =>
        /\ NoRemoteCall(calls)
        /\ "MergeAndValidateConfiguration" \notin {calls[i].op : i \in 1..Len(calls)}
        /\ calls[1] = Call("Stat", <<pre.URLPath>>)
        /\ o = pre
        /\ (ConfirmCount = 1) <=> resp.fileExists
        /\ ~resp.fileExists => (err # Nil /\ err[1] = ErrStat)
        /\ resp.fileExists => err \in {Nil, MakeError(ErrNotConfirmed)}

(* a malformed parameter list and a stale mapping, passed over untouched *)
C5_Witness ==
    /\ ValidateRan
    /\ pre.OpsType = ReconfiguringType
    /\ pre.Name # ""
    /\ Len(pre.ComponentNames) = 1
    /\ pre.URLPath # ""
    /\ pre.Parameters = <<PieceNoEq>>
    /\ pre.KeyValues = StaleMap
    /\ err = Nil

TplFetched == ValidateRan /\ Made(calls, "GetConfigTemplateList") /\ ~resp.tpl.err

(* template t was chosen: its name is on the descriptor and its config map is fetched *)
TplSelected(t) ==
    /\ Len(calls) >= 2
    /\ calls[2] = Call("GetConfigMap", <<pre.Name, pre.ComponentNames[1], t.VolumeName>>)
    /\ o.CfgTemplateName = t.Name

TplFailed(msg) ==
    /\ err = MakeError(msg)
    /\ Ops(calls) = <<"GetConfigTemplateList">>
    /\ o.CfgTemplateName = pre.CfgTemplateName
    /\ o.CfgFile = pre.CfgFile

(* C6: template selection, for every fetched list and every given name: an *)
(* empty list fails ("no config template"); one template and no name       *)
(* selects it and writes its name into the descriptor; several templates   *)
(* and no name fail ("must specify which template") with the descriptor's  *)
(* names unchanged; a given name selects the template of that name when    *)
(* the list has one and fails with "not exist" otherwise, also when the    *)
(* list holds one template of another name.                                *)
C6_TemplateSelection ==
    TplFetched =>
        LET tpls == resp.tpl.list
            name == pre.CfgTemplateName
            named == {i \in 1..Len(tpls) : tpls[i].Name = name}
        IN  /\ (Len(tpls) = 0) => TplFailed(ErrNoTemplate)
            /\ (Len(tpls) = 1 /\ name = "") => TplSelected(tpls[1])
            /\ (Len(tpls) > 1 /\ name = "") => TplFailed(ErrMultiTemplates)
            /\ (Len(tpls) >= 1 /\ name # "" /\ named # {}) =>
                  (\E i \in named : TplSelected(tpls[i]))
            /\ (Len(tpls) >= 1 /\ name # "" /\ named = {}) => TplFailed(ErrTemplateNotExist)

(* one template, and a given name that is not its name *)
C6_Witness ==
    /\ TplFetched
    /\ Len(resp.tpl.list) = 1
    /\ pre.CfgTemplateName # ""
    /\ resp.tpl.list[1].Name # pre.CfgTemplateName
    /\ err = MakeError(ErrTemplateNotExist)

CMFetched == ValidateRan /\ Made(calls, "GetConfigMap")

(* the step returned nil: Validate went on to fetch the constraint *)
KeyStepPassed == Len(calls) >= 3 /\ calls[3].op = "GetConfigConstraint"

KeyStepFailed(msg) == err = MakeError(msg) /\ Len(calls) = 2

(* C7: file-key selection against the chosen template's config map: a      *)
(* failed fetch is propagated; a map with no key fails ("no config file"); *)
(* no given file name and exactly one key sets the file name to that key;  *)
(* in every other case the step succeeds if and only if the given file     *)
(* name is a key of the map, failing with "not exist" otherwise (so no     *)
(* file name and two or more keys fail), and the file name is unchanged.   *)
C7_FileKeySelection ==
    CMFetched =>
        LET keys == resp.cm.keys
            file == pre.CfgFile
        IN  /\ resp.cm.err => (KeyStepFailed(ErrRemote) /\ o.CfgFile = file)
            /\ (~resp.cm.err /\ keys = {}) => (KeyStepFailed(ErrNoConfigFile) /\ o.CfgFile = file)
            /\ (~resp.cm.err /\ file = "" /\ Cardinality(keys) = 1) =>
                  (KeyStepPassed /\ keys = {o.CfgFile})
            /\ (~resp.cm.err /\ keys # {} /\ ~(file = "" /\ Cardinality(keys) = 1)) =>
                  /\ KeyStepPassed <=> file \in keys
                  /\ (file \notin keys) => KeyStepFailed(ErrFileNotExist)
                  /\ o.CfgFile = file

(* no file name given and two keys in the map *)
C7_Witness ==
    /\ CMFetched
    /\ ~resp.cm.err
    /\ pre.CfgFile = ""
    /\ Cardinality(resp.cm.keys) = 2
    /\ err = MakeError(ErrFileNotExist)

ParamsParsed == entry = "params" /\ pc = "done"

(* the pieces of entry s: the maximal comma-free stretches <<i, j>> of s *)
PieceSpans(s) ==
    {sp \in (1..(Len(s) + 1)) \X (0..Len(s)) :
        /\ sp[2] >= sp[1] - 1
        /\ sp[1] = 1 \/ s[sp[1] - 1] = ","
        /\ sp[2] = Len(s) \/ s[sp[2] + 1] = ","
        /\ \A x \in sp[1]..sp[2] : s[x] # ","}

(* the occurrences <<n, i, j>> of pieces in the list: piece i..j of entry n *)
Occurrences(params) ==
    UNION {{<<n, sp[1], sp[2]>> : sp \in PieceSpans(params[n])} : n \in 1..Len(params)}

OccHasEq(params, c) == \E x \in c[2]..c[3] : params[c[1]][x] = "="
OccEq(params, c) ==
    CHOOSE x \in c[2]..c[3] :
        params[c[1]][x] = "=" /\ \A y \in c[2]..(x - 1) : params[c[1]][y] # "="
OccKey(params, c) == SubSeq(params[c[1]], c[2], OccEq(params, c) - 1)
OccValue(params, c) == SubSeq(params[c[1]], OccEq(params, c) + 1, c[3])
OccLater(a, b) == a[1] > b[1] \/ (a[1] = b[1] /\ a[2] > b[2])

(* C8: parameter parsing, for every parameter list: with no file path an   *)
(* empty list fails ("required configure file or updated parameters");     *)
(* otherwise every entry is cut at its commas and every piece at its first *)
(* "=", a piece without "=" fails with the key=value format error, and on  *)
(* success the mapping holds exactly the keys of the list, each with the   *)
(* value of its last occurrence in list order, and nothing it held before. *)
C8_ParameterParsing ==
    ParamsParsed =>
        LET params == pre.Parameters
            occs == Occurrences(params)
        IN  /\ (params = <<>> /\ pre.URLPath = "") =>
                  err = MakeError(ErrRequiredFileOrParams)
            /\ ~(params = <<>> /\ pre.URLPath = "") =>
                  /\ (\E c \in occs : ~OccHasEq(params, c)) <=> err = MakeError(ErrFormatter)
                  /\ (\A c \in occs : OccHasEq(params, c)) =>
                        /\ err = Nil
                        /\ DOMAIN o.KeyValues = {OccKey(params, c) : c \in occs}
                        /\ \A c \in occs :
                             (\A b \in occs : OccKey(params, b) = OccKey(params, c)
                                                 => ~OccLater(b, c))
                                => o.KeyValues[OccKey(params, c)] = OccValue(params, c)

(* "a=1,b=1" then "a=2", parsed over a stale mapping: a is 2, b is 1, z is gone *)
C8_Witness ==
    /\ ParamsParsed
    /\ pre.Parameters = <<PieceA1 \o <<",">> \o PieceB1, PieceA2>>
    /\ pre.KeyValues = StaleMap
    /\ err = Nil
    /\ DOMAIN o.KeyValues = {<<"a">>, <<"b">>}
    /\ o.KeyValues[<<"a">>] = <<"2">>
    /\ o.KeyValues[<<"b">>] = <<"1">>

RestartCompleted == CompleteRan /\ given.OpsType = RestartType

RestartGiven ==
    (given.ComponentNames # <<>>) => (pre = given /\ ccalls = <<>> /\ cerr = Nil)

RestartFetched ==
    (given.ComponentNames = <<>>) =>
        /\ ccalls = <<Call("GetCluster", <<given.Name>>)>>
        /\ (~resp.cluster.err /\ resp.cluster.restartable.kind = "list") =>
              /\ cerr = Nil
              /\ pre = [given EXCEPT !.ComponentNames = resp.cluster.restartable.names]

(* the completion step returned an error and the command stopped there *)
StoppedAtCompletion ==
    /\ cerr # Nil
    /\ pc = "done"
    /\ calls = <<>>
    /\ ~submitted

(* C9: Restart completion: given component names are left as they are and *)
(* no lookup is made; with none given the cluster record is fetched once   *)
(* and componentNames becomes its status.operations.restartable list; and  *)
(* whenever that list cannot be read (the record cannot be fetched, the    *)
(* list is absent from it, or it is no list of names) the completion step  *)
(* itself returns an error, so that Validate is never entered.             *)
C9_UnreadableListFailsCompletion ==
    RestartCompleted =>
        /\ RestartGiven
        /\ RestartFetched
        /\ (given.ComponentNames = <<>> /\
            (resp.cluster.err \/ resp.cluster.restartable.kind \in {"absent", "malformed"}))
              => StoppedAtCompletion

(* C9 as amended: a record that cannot be fetched, or a restartable field  *)
(* that is no list of names, makes the completion step return an error; a  *)
(* record without the field makes it return nil with componentNames left   *)
(* empty, and Validate then fails ("missing component-names", or "missing  *)
(* cluster name") with no lookup and no confirmation; so no run reaches    *)
(* the confirmation or the submission with an empty component list.        *)
C9_RestartCompletion ==
    RestartCompleted =>
        /\ RestartGiven
        /\ RestartFetched
        /\ (given.ComponentNames = <<>> /\
            (resp.cluster.err \/ resp.cluster.restartable.kind = "malformed"))
              => StoppedAtCompletion
        /\ (given.ComponentNames = <<>> /\ ~resp.cluster.err /\
            resp.cluster.restartable.kind = "absent")
              => /\ cerr = Nil
                 /\ pre = given
                 /\ ValidateRan =>
                       /\ err = IF pre.Name = "" THEN MakeError(ErrMissingClusterName)
                                ELSE MakeError(ErrMissingComponentNames)
                       /\ calls = <<>>
                       /\ pc = "done"
        /\ (ConfirmCount > 0 \/ pc = "run" \/ submitted) => pre.ComponentNames # <<>>

(* the record has no restartable list: completion passes, Validate refuses *)
C9_Witness ==
    /\ RestartCompleted
    /\ given.ComponentNames = <<>>
    /\ ccalls # <<>>
    /\ ~resp.cluster.err
    /\ resp.cluster.restartable.kind = "absent"
    /\ cerr = Nil
    /\ ValidateRan
    /\ err = MakeError(ErrMissingComponentNames)

(* C10: Reconfigure component auto-fill runs as the completion step, before *)
(* Validate: with component names given it changes nothing and lists        *)
(* nothing; with none given it lists the components of the cluster record  *)
(* and fails ("must specify which component") for every list size other    *)
(* than one, zero included, leaving componentNames empty; a list of one is *)
(* adopted, and Validate then sees exactly one component name, so neither  *)
(* its "missing component-names" nor its "only one component" check fails. *)
C10_ComponentAutoFill ==
    (CompleteRan /\ given.OpsType = ReconfiguringType) =>
        /\ (given.ComponentNames # <<>>) => (pre = given /\ ccalls = <<>> /\ cerr = Nil)
        /\ (given.ComponentNames = <<>>) =>
              /\ ccalls = <<Call("GetComponentsFromClusterCR", <<given.Name>>)>>
              /\ (~resp.components.err /\ Len(resp.components.names) # 1) =>
                    /\ cerr = MakeError(ErrMultiComponents)
                    /\ pre = given
                    /\ StoppedAtCompletion
              /\ (~resp.components.err /\ Len(resp.components.names) = 1) =>
                    /\ cerr = Nil
                    /\ pre = [given EXCEPT !.ComponentNames = resp.components.names]
                    /\ ValidateRan =>
                          /\ err # MakeError(ErrMissingComponentNames)
                          /\ err # MakeError(ErrOnlyOneComponent)
        /\ ValidateRan => Len(pre.ComponentNames) >= 1

(* the sole component was adopted and Validate went on to the template lookup *)
C10_Witness ==
    /\ CompleteRan
    /\ given.OpsType = ReconfiguringType
    /\ given.ComponentNames = <<>>
    /\ Len(resp.components.names) = 1
    /\ pre.ComponentNames = resp.components.names
    /\ ValidateRan
    /\ Made(calls, "GetConfigTemplateList")

----------------------------------------------------------------------------
(* The steps of Reconfigure validation, each stated from the descriptor on *)
(* entry and the collaborators' answers.                                   *)

(* Validate of a Reconfigure got as far as validateReconfiguring *)
ReconfigureValidated ==
    /\ ValidateRan
    /\ entry \in {"command", "direct"}
    /\ pre.OpsType = ReconfiguringType
    /\ pre.Name # ""
    /\ Len(pre.ComponentNames) >= 1

IsPrefix(a, b) == Len(a) <= Len(b) /\ a = SubSeq(b, 1, Len(a))

FileChain == <<"Stat", "Confirm">>
LookupChain == <<"GetConfigTemplateList", "GetConfigMap", "GetConfigConstraint",
                 "MergeAndValidateConfiguration", "Confirm">>

StepCountOK == Len(pre.ComponentNames) = 1
StepParamsOK ==
    /\ pre.Parameters # <<>>
    /\ \A c \in Occurrences(pre.Parameters) : OccHasEq(pre.Parameters, c)
StepTemplateOK ==
    /\ ~resp.tpl.err
    /\ Len(resp.tpl.list) >= 1
    /\ IF pre.CfgTemplateName = "" THEN Len(resp.tpl.list) = 1
       ELSE \E i \in 1..Len(resp.tpl.list) : resp.tpl.list[i].Name = pre.CfgTemplateName
StepKeyOK ==
    /\ ~resp.cm.err
    /\ resp.cm.keys # {}
    /\ (pre.CfgFile = "" /\ Cardinality(resp.cm.keys) = 1) \/ pre.CfgFile \in resp.cm.keys
StepSchemaOK == ~resp.cc.err /\ resp.cc.ok

(* the templates of the fetched list that template selection may have chosen *)
ChosenTemplates ==
    {resp.tpl.list[i] : i \in {j \in 1..Len(resp.tpl.list) :
        IF pre.CfgTemplateName = "" THEN j = 1
        ELSE resp.tpl.list[j].Name = pre.CfgTemplateName}}

(* C11: Reconfigure validation runs its steps in the fixed order component *)
(* count, file path, parameter parsing, template-list fetch and selection, *)
(* config-map fetch and file-key selection, constraint fetch and schema    *)
(* validation, each short-circuiting: two or more component names fail     *)
(* with "only one component" before any lookup; each remote lookup is made *)
(* at most once and only after all earlier steps succeeded; the config map *)
(* fetched is that of the template chosen by template selection; after the *)
(* first failing step no later lookup, auto-fill or confirmation happens.  *)
C11_ReconfigureStepOrder ==
    ReconfigureValidated =>
        /\ IsPrefix(Ops(calls), IF pre.URLPath # "" THEN FileChain ELSE LookupChain)
        /\ ~StepCountOK => (err = MakeError(ErrOnlyOneComponent) /\ calls = <<>> /\ o = pre)
        /\ (StepCountOK /\ pre.URLPath # "") => Made(calls, "Stat")
        /\ (StepCountOK /\ pre.URLPath = "") =>
              /\ Made(calls, "GetConfigTemplateList") <=> StepParamsOK
              /\ ~StepParamsOK => (err # Nil /\ err[1] = ErrValidateParams)
              /\ Made(calls, "GetConfigMap") <=>
                    (Made(calls, "GetConfigTemplateList") /\ StepTemplateOK)
              /\ Made(calls, "GetConfigMap") =>
                    \E t \in ChosenTemplates :
                        /\ calls[2] = Call("GetConfigMap",
                                           <<pre.Name, pre.ComponentNames[1], t.VolumeName>>)
                        /\ o.CfgTemplateName = t.Name
              /\ Made(calls, "GetConfigConstraint") <=>
                    (Made(calls, "GetConfigMap") /\ StepKeyOK)
              /\ Made(calls, "GetConfigConstraint") =>
                    \E t \in ChosenTemplates :
                        calls[3] = Call("GetConfigConstraint", <<t.ConfigConstraintRef>>)
              /\ Made(calls, "MergeAndValidateConfiguration") <=>
                    (Made(calls, "GetConfigConstraint") /\ ~resp.cc.err)
              /\ Made(calls, "Confirm") <=>
                    (Made(calls, "MergeAndValidateConfiguration") /\ StepSchemaOK)
              /\ (o.CfgTemplateName # pre.CfgTemplateName) => Made(calls, "GetConfigMap")
              /\ (o.CfgFile # pre.CfgFile) => Made(calls, "GetConfigConstraint")
              /\ ~Made(calls, "Confirm") => err # Nil

(* the template was filled in, and the fetch of its config map then failed: *)
(* nothing follows the failed fetch                                         *)
C11_Witness ==
    /\ ReconfigureValidated
    /\ pre.URLPath = ""
    /\ pre.CfgTemplateName = ""
    /\ o.CfgTemplateName # ""
    /\ resp.cm.err
    /\ Ops(calls) = <<"GetConfigTemplateList", "GetConfigMap">>
    /\ o.CfgFile = pre.CfgFile
    /\ err = MakeError(ErrRemote)

====
